---- MODULE Spec2Model ----
(***************************************************************************)
(* Pascal VOC dataset parser (effdet/data/parsers/parser_voc.py).          *)
(*                                                                         *)
(* A VocParser is built once from a configuration: it reads the split     *)
(* file, then one XML annotation file per image identifier, and keeps      *)
(* parallel lists img_ids / img_infos / anns plus the map img_id_to_idx.   *)
(* merge() appends another parser's lists in place, get_ann_info()         *)
(* normalises the stored raw annotations of one position.                  *)
(*                                                                         *)
(* Positions are 0-based as in the source; the sequences of the model are  *)
(* 1-based, so position i of a list is element i + 1 of its sequence.      *)
(* The XML text fields are held as the integers / strings int() and .text  *)
(* give; a split file is held as the list of its stripped lines.           *)
(***************************************************************************)
EXTENDS Integers, Sequences, FiniteSets, TLC

VARIABLES
    files,      \* the annotation files on disk: image id -> parsed XML root
    parsers,    \* the parser objects of the program, by the name bound to them
    ret,        \* the last call made: its arguments, its result or its exception
    merges      \* number of merge() calls made so far

vars == <<files, parsers, ret, merges>>

(***************************************************************************)
(* Bounds of the model.                                                    *)
(***************************************************************************)
MaxSplit == 2       \* lines of a split file (Spec)
MaxLoad == 3        \* lines of a split file (SpecLoad)
MaxMerges == 2      \* merge() calls in one behaviour
MaxAnns == 2        \* <object> entries of the free annotation file (SpecAnn)

Parsers == {"a", "b"}

Min(x, y) == IF x < y THEN x ELSE y

RECURSIVE SeqsUpTo(_, _)
SeqsUpTo(S, n) ==
    IF n = 0 THEN {<<>>}
    ELSE LET shorter == SeqsUpTo(S, n - 1)
         IN  shorter \cup {Append(s, x) : s \in {t \in shorter : Len(t) = n - 1}, x \in S}

Range(s) == {s[i] : i \in DOMAIN s}

(***************************************************************************)
(* The class list and the category table (lines 15-18, 29-31).             *)
(***************************************************************************)
DEFAULT_CLASSES ==
    << "aeroplane", "bicycle", "bird", "boat", "bottle", "bus", "car", "cat", "chair",
       "cow", "diningtable", "dog", "horse", "motorbike", "person", "pottedplant",
       "sheep", "sofa", "train", "tvmonitor" >>

\* cfg.classes or self.DEFAULT_CLASSES: None and the empty list are both falsy
classes_of(cfg) == IF cfg.classes = <<>> THEN DEFAULT_CLASSES ELSE cfg.classes

\* {cat: i + 1 for i, cat in enumerate(classes)}: a later duplicate overwrites
make_cat_to_label(classes) ==
    [cat \in Range(classes) |->
        CHOOSE l \in DOMAIN classes :
            classes[l] = cat /\ \A m \in DOMAIN classes : classes[m] = cat => m <= l]

(***************************************************************************)
(* VocParser.__init__, lines 21-37: the object before _load_annotations.   *)
(***************************************************************************)
NoParser == [status |-> "none"]
Failed == [status |-> "failed"]

new_parser(cfg) ==
    [status                |-> "built",
     yxyx                  |-> cfg.bbox_yxyx,
     has_labels            |-> cfg.has_labels,
     keep_difficult        |-> cfg.keep_difficult,
     include_bboxes_ignore |-> FALSE,
     ignore_empty_gt       |-> cfg.has_labels /\ cfg.ignore_empty_gt,
     min_img_size          |-> cfg.min_img_size,
     correct_bbox          |-> 1,
     cat_ids               |-> <<>>,
     cat_to_label          |-> make_cat_to_label(classes_of(cfg)),
     img_ids               |-> <<>>,
     img_ids_invalid       |-> <<>>,
     img_infos             |-> <<>>,
     img_id_to_idx         |-> <<>>,
     anns                  |-> <<>>]

(***************************************************************************)
(* _load_annotations, lines 40-78.                                         *)
(***************************************************************************)
\* cfg.img_filename % img_id
img_filename(cfg, img_id) == <<cfg.img_dir, img_id, ".jpg">>

\* a size test on the larger side
too_small_max(self, width, height) ==
    (IF width > height THEN width ELSE height) < self.min_img_size

\* line 55: the image is skipped
too_small(self, width, height) == Min(width, height) < self.min_img_size

\* line 61: self.cat_to_label[name] raises KeyError for a name not in the table
unknown_name(self, root) ==
    \E k \in DOMAIN root.objects : root.objects[k].name \notin DOMAIN self.cat_to_label

\* lines 58-70: the raw annotations of one image, in document order
read_objects(self, root) ==
    [k \in DOMAIN root.objects |->
        [label     |-> self.cat_to_label[root.objects[k].name],
         bbox      |-> root.objects[k].bndbox,
         difficult |-> root.objects[k].difficult]]

\* a retention test that counts only the annotations not flagged difficult
keep_image_usable(self, anns) ==
    ~self.ignore_empty_gt \/ \E k \in DOMAIN anns : anns[k].difficult = 0

\* line 72
keep_image(self, anns) == ~self.ignore_empty_gt \/ Len(anns) > 0

\* line 76: dict assignment; img_idx is the loop counter of enumerate(ids)
record_idx(self, img_id, img_idx) ==
    [id \in DOMAIN self.img_id_to_idx \cup {img_id} |->
        IF id = img_id THEN img_idx ELSE self.img_id_to_idx[id]]

\* lines 73-76
append_image(self, cfg, img_id, img_idx, root, anns) ==
    [self EXCEPT
        !.anns = Append(@, anns),
        !.img_infos = Append(@, [id |-> img_id, file_name |-> img_filename(cfg, img_id),
                                 width |-> root.width, height |-> root.height]),
        !.img_ids = Append(@, img_id),
        !.img_id_to_idx = record_idx(self, img_id, img_idx)]

\* line 78
reject_image(self, img_id) == [self EXCEPT !.img_ids_invalid = Append(@, img_id)]

\* a lookup failure swallowed: the load stops and hands back what it has
key_error_swallowed(self) == [err |-> "none", self |-> self]

\* line 61 raising: the exception leaves __init__, the object is lost
key_error(self) == [err |-> "KeyError", self |-> self]

\* the loop of lines 46-78 from iteration img_idx on; an exception ends it
RECURSIVE load_loop(_, _, _, _, _)
load_loop(self, cfg, fs, ids, img_idx) ==
    IF img_idx >= Len(ids) THEN [err |-> "none", self |-> self]
    ELSE
        LET img_id == ids[img_idx + 1]
            root == fs[img_id]
        IN  IF too_small(self, root.width, root.height)
            THEN load_loop(self, cfg, fs, ids, img_idx + 1)
            ELSE IF unknown_name(self, root)
            THEN key_error(self)
            ELSE LET anns == read_objects(self, root)
                 IN  IF keep_image(self, anns)
                     THEN load_loop(append_image(self, cfg, img_id, img_idx, root, anns),
                                    cfg, fs, ids, img_idx + 1)
                     ELSE load_loop(reject_image(self, img_id), cfg, fs, ids, img_idx + 1)

load_annotations(self, cfg, fs) ==
    load_loop([self EXCEPT !.anns = <<>>], cfg, fs, cfg.split, 0)

(***************************************************************************)
(* merge, lines 80-87.  The result names both objects after the call.      *)
(***************************************************************************)
\* the offsets of the other index copied as they are
merge_idx_unshifted(self, other, this_size) ==
    [id \in DOMAIN self.img_id_to_idx \cup DOMAIN other.img_id_to_idx |->
        IF id \in DOMAIN other.img_id_to_idx
        THEN other.img_id_to_idx[id]
        ELSE self.img_id_to_idx[id]]

\* lines 86-87
merge_idx(self, other, this_size) ==
    [id \in DOMAIN self.img_id_to_idx \cup DOMAIN other.img_id_to_idx |->
        IF id \in DOMAIN other.img_id_to_idx
        THEN other.img_id_to_idx[id] + this_size
        ELSE self.img_id_to_idx[id]]

\* line 82: the condition of the assert
merge_check(self, other) == Len(self.cat_ids) = Len(other.cat_ids)

\* an extend that leaves out the elements the list already holds
RECURSIVE extend_unique(_, _)
extend_unique(list, more) ==
    IF more = <<>> THEN list
    ELSE extend_unique(IF Head(more) \in Range(list) THEN list
                       ELSE Append(list, Head(more)), Tail(more))

\* list.extend, lines 83-85
extend(list, more) == list \o more

\* a merge that renumbers the offsets of the other index in place
merge_renumbering_other(self, other) ==
    LET this_size == Len(self.img_ids)
        shifted == [id \in DOMAIN other.img_id_to_idx |->
                        other.img_id_to_idx[id] + this_size]
    IN  [err |-> "none",
         self |-> [self EXCEPT
                     !.img_ids = extend(@, other.img_ids),
                     !.img_infos = extend(@, other.img_infos),
                     !.anns = extend(@, other.anns),
                     !.img_id_to_idx =
                         [id \in DOMAIN self.img_id_to_idx \cup DOMAIN shifted |->
                             IF id \in DOMAIN shifted THEN shifted[id]
                             ELSE self.img_id_to_idx[id]]],
         other |-> [other EXCEPT !.img_id_to_idx = shifted]]

merge(self, other) ==
    LET this_size == Len(self.img_ids)
    IN  IF ~merge_check(self, other)
        THEN [err |-> "AssertionError", self |-> self, other |-> other]
        ELSE [err |-> "none",
              self |-> [self EXCEPT
                          !.img_ids = extend(@, other.img_ids),
                          !.img_infos = extend(@, other.img_infos),
                          !.anns = extend(@, other.anns),
                          !.img_id_to_idx = merge_idx(self, other, this_size)],
              other |-> other]

(***************************************************************************)
(* _parse_ann_info, lines 92-139.                                          *)
(***************************************************************************)
\* lines 101-104
degenerate(bbox) == bbox[3] - bbox[1] < 1 \/ bbox[4] - bbox[2] < 1

\* an ignore test that looks at the width alone
is_ignored_width_only(self, ann) ==
    ann.bbox[3] - ann.bbox[1] < 1 \/ (ann.difficult # 0 /\ ~self.keep_difficult)

\* line 109
is_ignored(self, ann) ==
    degenerate(ann.bbox) \/ (ann.difficult # 0 /\ ~self.keep_difficult)

\* lines 105-108
ordered_bbox(self, bbox) ==
    IF self.yxyx THEN <<bbox[2], bbox[1], bbox[4], bbox[3]>> ELSE bbox

\* the lists built by the loop of lines 97-114, in order: lines 113-114
usable_anns(self, ann_info) ==
    LET F[i \in 0..Len(ann_info)] ==
            IF i = 0 THEN <<>>
            ELSE IF is_ignored(self, ann_info[i]) THEN F[i - 1]
                 ELSE Append(F[i - 1], ann_info[i])
    IN  F[Len(ann_info)]

\* lines 110-111
ignored_anns(self, ann_info) ==
    LET F[i \in 0..Len(ann_info)] ==
            IF i = 0 THEN <<>>
            ELSE IF is_ignored(self, ann_info[i]) THEN Append(F[i - 1], ann_info[i])
                 ELSE F[i - 1]
    IN  F[Len(ann_info)]

\* np.float32 of an integer: exact up to 2^24, beyond it rounded to the 24-bit
\* significand (ties to even)
RECURSIVE ulp_of(_, _)
ulp_of(n, u) == IF n < 2 ^ 24 * u THEN u ELSE ulp_of(n, 2 * u)

float32(n) ==
    LET m == IF n < 0 THEN -n ELSE n
        u == ulp_of(m, 1)
        q == m \div u
        r == m % u
        up == 2 * r > u \/ (2 * r = u /\ q % 2 = 1)
        v == IF up THEN (q + 1) * u ELSE q * u
    IN  IF n < 0 THEN -v ELSE v

\* the array without the shift
bbox_array_unshifted(bboxes) ==
    [i \in DOMAIN bboxes |-> [j \in 1..4 |-> float32(bboxes[i][j])]]

\* lines 116-121: np.array(bboxes, ndmin=2, dtype=np.float32) - 1, or zeros((0, 4))
bbox_array(bboxes) ==
    [i \in DOMAIN bboxes |-> [j \in 1..4 |-> float32(float32(bboxes[i][j]) - 1)]]

\* lines 118, 121, 133: float32 labels cast to int64
cls_array(labels) == [i \in DOMAIN labels |-> float32(labels[i])]

\* what the call leaves in the stored list it was handed (never written)
stored_after(self, ann_info) == ann_info

parse_ann_info(self, ann_info) ==
    LET use == usable_anns(self, ann_info)
        ign == ignored_anns(self, ann_info)
        bboxes == [i \in DOMAIN use |-> ordered_bbox(self, use[i].bbox)]
        labels == [i \in DOMAIN use |-> use[i].label]
        bboxes_ignore == [i \in DOMAIN ign |-> ordered_bbox(self, ign[i].bbox)]
        labels_ignore == [i \in DOMAIN ign |-> ign[i].label]
        ann == [bbox |-> bbox_array(bboxes), cls |-> cls_array(labels)]
    IN  [ann |-> IF self.include_bboxes_ignore
                 THEN [bbox |-> ann.bbox, cls |-> ann.cls,
                       bbox_ignore |-> bbox_array(bboxes_ignore),
                       cls_ignore |-> cls_array(labels_ignore)]
                 ELSE ann,
         \* the local lists of lines 95-96 when the loop ends
         bboxes_ignore |-> bboxes_ignore,
         labels_ignore |-> labels_ignore,
         ann_info |-> stored_after(self, ann_info)]

(***************************************************************************)
(* The data set on disk used by Spec and SpecLoad: four annotation files.  *)
(*   small  50 x 400, below every threshold; its object names no class     *)
(*   empty  500 x 500, no object                                           *)
(*   hard   500 x 500, one object, flagged difficult                       *)
(*   good   200 x 300, a plain box and a box of zero width                 *)
(***************************************************************************)
VocFiles ==
    [id \in {"small", "empty", "hard", "good"} |->
        CASE id = "small" ->
                [width |-> 50, height |-> 400,
                 objects |-> << [name |-> "zebra", difficult |-> 0,
                                 bndbox |-> <<3, 7, 40, 300>>] >>]
          [] id = "empty" ->
                [width |-> 500, height |-> 500, objects |-> <<>>]
          [] id = "hard" ->
                [width |-> 500, height |-> 500,
                 objects |-> << [name |-> "cat", difficult |-> 1,
                                 bndbox |-> <<10, 20, 110, 220>>] >>]
          [] id = "good" ->
                [width |-> 200, height |-> 300,
                 objects |-> << [name |-> "bird", difficult |-> 0,
                                 bndbox |-> <<48, 140, 195, 271>>],
                                [name |-> "cat", difficult |-> 0,
                                 bndbox |-> <<5, 6, 5, 50>>] >>]]

\* the free annotation file of SpecAnn: any short list of objects
Boxes == {<<3, 5, 3 + w, 5 + h>> : w \in {0, 1}, h \in {-1, 0, 2}}
Objects == [name : {"cat", "dog"}, difficult : {0, 1}, bndbox : Boxes]
AnnFiles ==
    {[id \in {"img"} |-> [width |-> 500, height |-> 500, objects |-> objs]] :
        objs \in SeqsUpTo(Objects, MaxAnns)}

(***************************************************************************)
(* The configurations a parser is built from (VocParserCfg).               *)
(***************************************************************************)
ClassLists == {<<>>, <<"cat", "dog">>}
MinImgSizes == {100, 300}

MergeCfgs ==
    [bbox_yxyx : {FALSE}, has_labels : {TRUE}, keep_difficult : {FALSE},
     ignore_empty_gt : BOOLEAN, min_img_size : {100}, classes : ClassLists,
     img_dir : {"JPEGImages"}, split : SeqsUpTo(DOMAIN files, MaxSplit)]

LoadCfgs ==
    [bbox_yxyx : BOOLEAN, has_labels : BOOLEAN, keep_difficult : BOOLEAN,
     ignore_empty_gt : BOOLEAN, min_img_size : MinImgSizes, classes : ClassLists,
     img_dir : {"JPEGImages"}, split : SeqsUpTo(DOMAIN files, MaxLoad)]

AnnCfgs ==
    [bbox_yxyx : BOOLEAN, has_labels : {TRUE}, keep_difficult : BOOLEAN,
     ignore_empty_gt : BOOLEAN, min_img_size : {100}, classes : {<<>>},
     img_dir : {"JPEGImages"}, split : SeqsUpTo(DOMAIN files, 1)]

(***************************************************************************)
(* The calls of the program.                                               *)
(***************************************************************************)
NoRet ==
    [op |-> "none", self |-> "-", other |-> "-", idx |-> -1, err |-> "none",
     cfg |-> <<>>, val |-> <<>>]

\* p = VocParser(cfg): an exception out of __init__ leaves no object behind,
\* and the name p is never bound
Construct(p, cfg) ==
    /\ parsers[p].status = "none"
    /\ LET r == load_annotations(new_parser(cfg), cfg, files)
       IN  /\ parsers' = [parsers EXCEPT ![p] = IF r.err = "none" THEN r.self
                                                ELSE Failed]
           /\ ret' = [NoRet EXCEPT !.op = "init", !.self = p, !.err = r.err, !.cfg = cfg]
    /\ UNCHANGED <<files, merges>>

\* a.merge(b) on two parser objects
Merge(a, b) ==
    /\ a # b
    /\ parsers[a].status = "built"
    /\ parsers[b].status = "built"
    /\ merges < MaxMerges
    /\ LET r == merge(parsers[a], parsers[b])
       IN  /\ parsers' = [parsers EXCEPT ![a] = r.self, ![b] = r.other]
           /\ ret' = [NoRet EXCEPT !.op = "merge", !.self = a, !.other = b, !.err = r.err]
    /\ merges' = merges + 1
    /\ UNCHANGED files

\* p.get_ann_info(idx), lines 89-90, for a position of the index
GetAnnInfo(p, idx) ==
    /\ parsers[p].status = "built"
    /\ idx + 1 \in DOMAIN parsers[p].anns
    /\ LET r == parse_ann_info(parsers[p], parsers[p].anns[idx + 1])
       IN  /\ parsers' = [parsers EXCEPT ![p].anns[idx + 1] = r.ann_info]
           /\ ret' = [NoRet EXCEPT !.op = "get_ann_info", !.self = p, !.idx = idx,
                                   !.val = r]
    /\ UNCHANGED <<files, merges>>

\* the parsers not yet built, and the positions of a built one
Unbuilt == {p \in Parsers : parsers[p].status = "none"}
Positions(p) ==
    IF parsers[p].status = "built" THEN 0..(Len(parsers[p].anns) - 1) ELSE {}

(***************************************************************************)
(* Spec: two parsers over the data set, built, merged and queried.         *)
(***************************************************************************)
Init ==
    /\ files = VocFiles
    /\ parsers = [p \in Parsers |-> NoParser]
    /\ ret = NoRet
    /\ merges = 0

Next ==
    \/ \E p \in Unbuilt : \E cfg \in MergeCfgs : Construct(p, cfg)
    \/ \E a \in Parsers : \E b \in Parsers : Merge(a, b)

Spec == Init /\ [][Next]_vars

(***************************************************************************)
(* SpecLoad: one parser over the data set, every configuration.            *)
(***************************************************************************)
NextLoad ==
    \/ \E p \in Unbuilt \cap {"a"} : \E cfg \in LoadCfgs : Construct(p, cfg)
    \/ \E idx \in Positions("a") : GetAnnInfo("a", idx)

SpecLoad == Init /\ [][NextLoad]_vars

(***************************************************************************)
(* SpecAnn: one parser over one image whose annotation file is free.       *)
(***************************************************************************)
InitAnn ==
    /\ files \in AnnFiles
    /\ parsers = [p \in Parsers |-> NoParser]
    /\ ret = NoRet
    /\ merges = 0

NextAnn ==
    \/ \E p \in Unbuilt \cap {"a"} : \E cfg \in AnnCfgs : Construct(p, cfg)
    \/ \E idx \in Positions("a") : GetAnnInfo("a", idx)

SpecAnn == InitAnn /\ [][NextAnn]_vars

TypeOK ==
    /\ merges \in 0..MaxMerges
    /\ \A p \in Parsers : parsers[p].status \in {"none", "built", "failed"}

(***************************************************************************)
(* Vocabulary of the properties.                                           *)
(***************************************************************************)
Built(p) == parsers[p].status = "built"

Count(list, x) == Cardinality({i \in DOMAIN list : list[i] = x})

NumCats(p) == Cardinality(DOMAIN parsers[p].cat_to_label)

\* the step just taken is the call a.merge(b)
MergeCalled(a, b) ==
    /\ merges' = merges + 1
    /\ ret'.op = "merge"
    /\ ret'.self = a
    /\ ret'.other = b

\* the annotation is degenerate, or difficult while difficult ones are dropped
ShouldIgnore(P, ann) ==
    \/ ann.bbox[3] - ann.bbox[1] < 1
    \/ ann.bbox[4] - ann.bbox[2] < 1
    \/ (ann.difficult # 0 /\ ~P.keep_difficult)

\* how many of the first k raw annotations belong to the ignore group
IgnoredUpTo(P, raw, k) == Cardinality({j \in 1..k : ShouldIgnore(P, raw[j])})

\* a box in the configured coordinate order
InOrder(P, b) == IF P.yxyx THEN <<b[2], b[1], b[4], b[3]>> ELSE <<b[1], b[2], b[3], b[4]>>

\* the raw 1-based xyxy box an output box stands for
Unshifted(P, b) ==
    IF P.yxyx THEN <<b[2] + 1, b[1] + 1, b[4] + 1, b[3] + 1>>
    ELSE <<b[1] + 1, b[2] + 1, b[3] + 1, b[4] + 1>>

\* the image has one object and it is flagged difficult
OnlyDifficult(root) == Len(root.objects) = 1 /\ root.objects[1].difficult # 0

PassesMinSize(root, size) == Min(root.width, root.height) >= size

(***************************************************************************)
(* C1.  In every index reachable by construction followed by any number of *)
(* merges, every identifier of img_ids has an entry in img_id_to_idx that  *)
(* is a valid position (0 <= p < number of retained images) and the        *)
(* identifier stored at that position is that identifier.                  *)
(***************************************************************************)
C1_IdToIdxPointsAtId ==
    \A p \in Parsers : Built(p) =>
        \A k \in DOMAIN parsers[p].img_ids :
            LET id == parsers[p].img_ids[k]
                m == parsers[p].img_id_to_idx
            IN  /\ id \in DOMAIN m
                /\ m[id] \in 0..(Len(parsers[p].img_ids) - 1)
                /\ parsers[p].img_ids[m[id] + 1] = id

(***************************************************************************)
(* C2.  a.merge(b) on two indexes whose category tables differ in size     *)
(* fails with an error, and the failed call leaves both indexes as they    *)
(* were.                                                                   *)
(***************************************************************************)
C2_MismatchedMergeFails ==
    [][\A a \in Parsers : \A b \in Parsers :
          (MergeCalled(a, b) /\ NumCats(a) # NumCats(b)) =>
              (ret'.err # "none" /\ parsers' = parsers)]_vars

(***************************************************************************)
(* C3.  A successful a.merge(b) leaves in a the three lists of a followed  *)
(* by those of b, in b's order (so each has the length of a's plus the     *)
(* length of b's), and maps every identifier of b to the pre-merge length  *)
(* of a plus its offset in b.                                              *)
(***************************************************************************)
C3_MergeAppendsAndRenumbers ==
    [][\A a \in Parsers : \A b \in Parsers :
          (MergeCalled(a, b) /\ ret'.err = "none") =>
              LET A == parsers[a]
                  B == parsers[b]
                  M == parsers'[a]
                  n == Len(A.img_ids)
              IN  /\ Len(M.img_ids) = n + Len(B.img_ids)
                  /\ Len(M.img_infos) = Len(A.img_infos) + Len(B.img_infos)
                  /\ Len(M.anns) = Len(A.anns) + Len(B.anns)
                  /\ \A k \in 1..Len(M.img_ids) :
                        IF k <= n
                        THEN /\ M.img_ids[k] = A.img_ids[k]
                             /\ M.img_infos[k] = A.img_infos[k]
                             /\ M.anns[k] = A.anns[k]
                        ELSE /\ M.img_ids[k] = B.img_ids[k - n]
                             /\ M.img_infos[k] = B.img_infos[k - n]
                             /\ M.anns[k] = B.anns[k - n]
                  /\ \A id \in Range(B.img_ids) :
                        M.img_id_to_idx[id] = n + B.img_id_to_idx[id]]_vars

\* a merge of a non-empty index into a non-empty one has returned
C3_Witness ==
    /\ ret.op = "merge"
    /\ ret.err = "none"
    /\ Len(parsers[ret.other].img_ids) > 0
    /\ Len(parsers[ret.self].img_ids) > Len(parsers[ret.other].img_ids)

(***************************************************************************)
(* C4.  An image that passes the size test and whose only object is        *)
(* flagged difficult, loaded with keep_difficult off: get_ann_info returns *)
(* an empty usable group for it, and construction keeps it in the main     *)
(* index and out of the rejected list, whatever ignore_empty_gt is.        *)
(***************************************************************************)
C4_DifficultOnlyIsRetained ==
    /\ (ret.op = "init" /\ ret.err = "none" /\ ~ret.cfg.keep_difficult) =>
          \A k \in DOMAIN ret.cfg.split :
              LET id == ret.cfg.split[k]
                  P == parsers[ret.self]
              IN  (OnlyDifficult(files[id]) /\ PassesMinSize(files[id], ret.cfg.min_img_size))
                      => (id \in Range(P.img_ids) /\ id \notin Range(P.img_ids_invalid))
    /\ (ret.op = "get_ann_info" /\ ~parsers[ret.self].keep_difficult) =>
          LET P == parsers[ret.self]
          IN  OnlyDifficult(files[P.img_ids[ret.idx + 1]])
                  => (ret.val.ann.bbox = <<>> /\ ret.val.ann.cls = <<>>)

\* C4 as first stated: such an image is retained when ignore_empty_gt is off and
\* rejected (in the rejected list, not in the main index) when it is on
C4_DifficultOnlyIsRejected ==
    (ret.op = "init" /\ ret.err = "none" /\ ~ret.cfg.keep_difficult) =>
        \A k \in DOMAIN ret.cfg.split :
            LET id == ret.cfg.split[k]
                P == parsers[ret.self]
            IN  (OnlyDifficult(files[id]) /\ PassesMinSize(files[id], ret.cfg.min_img_size))
                    => IF P.ignore_empty_gt
                       THEN id \in Range(P.img_ids_invalid) /\ id \notin Range(P.img_ids)
                       ELSE id \in Range(P.img_ids)

\* get_ann_info has returned an empty usable group for a difficult-only image
\* that a parser requiring ground truth retained
C4_Witness ==
    /\ ret.op = "get_ann_info"
    /\ parsers[ret.self].ignore_empty_gt
    /\ ~parsers[ret.self].keep_difficult
    /\ OnlyDifficult(files[parsers[ret.self].img_ids[ret.idx + 1]])
    /\ Len(parsers[ret.self].anns[ret.idx + 1]) = 1
    /\ ret.val.ann.bbox = <<>>

(***************************************************************************)
(* C5.  After construction every retained image has                       *)
(* min(width, height) >= min_img_size, and an image of the split file      *)
(* below the threshold is neither in img_ids nor in img_ids_invalid,       *)
(* whatever its annotations and whatever ignore_empty_gt is.               *)
(***************************************************************************)
C5_SmallImagesVanish ==
    /\ \A p \in Parsers : Built(p) =>
          \A k \in DOMAIN parsers[p].img_infos :
              Min(parsers[p].img_infos[k].width, parsers[p].img_infos[k].height)
                  >= parsers[p].min_img_size
    /\ (ret.op = "init" /\ ret.err = "none") =>
          \A k \in DOMAIN ret.cfg.split :
              LET id == ret.cfg.split[k]
                  P == parsers[ret.self]
              IN  ~PassesMinSize(files[id], ret.cfg.min_img_size)
                      => (id \notin Range(P.img_ids) /\ id \notin Range(P.img_ids_invalid))

\* a construction has returned that met a too-small image and kept another
C5_Witness ==
    /\ ret.op = "init"
    /\ ret.err = "none"
    /\ \E k \in DOMAIN ret.cfg.split :
          ~PassesMinSize(files[ret.cfg.split[k]], ret.cfg.min_img_size)
    /\ parsers[ret.self].ignore_empty_gt
    /\ Len(parsers[ret.self].img_ids) > 0
    /\ Len(parsers[ret.self].img_ids_invalid) > 0

(***************************************************************************)
(* C6.  get_ann_info puts a raw annotation in the ignore group exactly     *)
(* when it is degenerate (x2 - x1 < 1 or y2 - y1 < 1 on the raw            *)
(* coordinates) or difficult with keep_difficult off, and every other one  *)
(* in the usable group, both groups in the original order; no box of the   *)
(* usable group has raw width or height below 1.                           *)
(***************************************************************************)
C6_IgnoreGroupExactly ==
    ret.op = "get_ann_info" =>
        LET P == parsers[ret.self]
            raw == P.anns[ret.idx + 1]
            r == ret.val
            total == IgnoredUpTo(P, raw, Len(raw))
        IN  /\ Len(r.bboxes_ignore) = total
            /\ Len(r.labels_ignore) = total
            /\ Len(r.ann.bbox) = Len(raw) - total
            /\ Len(r.ann.cls) = Len(raw) - total
            /\ \A k \in DOMAIN raw :
                  LET n == IgnoredUpTo(P, raw, k)
                  IN  IF ShouldIgnore(P, raw[k])
                      THEN /\ r.bboxes_ignore[n] = InOrder(P, raw[k].bbox)
                           /\ r.labels_ignore[n] = raw[k].label
                      ELSE /\ Unshifted(P, r.ann.bbox[k - n]) = raw[k].bbox
                           /\ r.ann.cls[k - n] = raw[k].label
            /\ \A i \in DOMAIN r.ann.bbox :
                  LET b == Unshifted(P, r.ann.bbox[i])
                  IN  b[3] - b[1] >= 1 /\ b[4] - b[2] >= 1

\* a call has returned with both groups filled, the ignored box being one of
\* zero or negative height, not flagged difficult
C6_Witness ==
    /\ ret.op = "get_ann_info"
    /\ Len(ret.val.ann.bbox) > 0
    /\ LET P == parsers[ret.self]
           raw == P.anns[ret.idx + 1]
       IN  /\ \E k \in DOMAIN raw :
                 raw[k].difficult = 0 /\ raw[k].bbox[4] - raw[k].bbox[2] < 1
                                      /\ raw[k].bbox[3] - raw[k].bbox[1] >= 1
           /\ Len(ret.val.bboxes_ignore) = 1

(***************************************************************************)
(* C7.  For every stored box [x1, y1, x2, y2] with x2 - x1 >= 1,           *)
(* y2 - y1 >= 1 and difficulty false, the usable group holds               *)
(* [x1-1, y1-1, x2-1, y2-1] (xyxy) or [y1-1, x1-1, y2-1, x2-1] (yxyx): one *)
(* shift by minus one.  The call leaves the stored raw annotations as they *)
(* were, and a repeated call on the same position returns the same values. *)
(***************************************************************************)
C7_ShiftedOnceStoredUntouched ==
    [][ret'.op = "get_ann_info" =>
          LET P == parsers[ret'.self]
              raw == P.anns[ret'.idx + 1]
              r == ret'.val
          IN  /\ parsers' = parsers
              /\ \A k \in DOMAIN raw :
                    LET x1 == raw[k].bbox[1]
                        y1 == raw[k].bbox[2]
                        x2 == raw[k].bbox[3]
                        y2 == raw[k].bbox[4]
                        slot == k - IgnoredUpTo(P, raw, k)
                    IN  (x2 - x1 >= 1 /\ y2 - y1 >= 1 /\ raw[k].difficult = 0) =>
                            /\ slot \in DOMAIN r.ann.bbox
                            /\ r.ann.bbox[slot] =
                                   IF P.yxyx THEN <<y1 - 1, x1 - 1, y2 - 1, x2 - 1>>
                                   ELSE <<x1 - 1, y1 - 1, x2 - 1, y2 - 1>>
              /\ (ret.op = "get_ann_info" /\ ret.self = ret'.self /\ ret.idx = ret'.idx)
                    => ret'.val = ret.val]_vars

\* a call in yxyx order has returned a shifted box
C7_Witness ==
    /\ ret.op = "get_ann_info"
    /\ parsers[ret.self].yxyx
    /\ Len(parsers[ret.self].anns[ret.idx + 1]) > 1
    /\ Len(ret.val.ann.bbox) > 0
    /\ ret.val.ann.bbox[1] # <<ret.val.ann.bbox[1][2], ret.val.ann.bbox[1][1],
                             ret.val.ann.bbox[1][4], ret.val.ann.bbox[1][3]>>

(***************************************************************************)
(* C8.  A merge of two indexes built from the same class list leaves the   *)
(* category table of the first as it was, and every identifier occurs in   *)
(* the merged img_ids as many times as in the two lists before the merge   *)
(* taken together: once if it was in one of them only, once.               *)
(***************************************************************************)
C8_MergeKeepsEveryOccurrence ==
    [][\A a \in Parsers : \A b \in Parsers :
          (/\ MergeCalled(a, b)
           /\ ret'.err = "none"
           /\ parsers[a].cat_to_label = parsers[b].cat_to_label) =>
              /\ parsers'[a].cat_to_label = parsers[a].cat_to_label
              /\ \A id \in Range(parsers[a].img_ids) \cup Range(parsers[b].img_ids) :
                    Count(parsers'[a].img_ids, id) =
                        Count(parsers[a].img_ids, id) + Count(parsers[b].img_ids, id)]_vars

\* C8 as first stated: every identifier of either index is in the merged
\* img_ids exactly once
C8_EveryIdentifierOnce ==
    [][\A a \in Parsers : \A b \in Parsers :
          (/\ MergeCalled(a, b)
           /\ ret'.err = "none"
           /\ parsers[a].cat_to_label = parsers[b].cat_to_label) =>
              /\ parsers'[a].cat_to_label = parsers[a].cat_to_label
              /\ \A id \in Range(parsers[a].img_ids) \cup Range(parsers[b].img_ids) :
                    Count(parsers'[a].img_ids, id) = 1]_vars

\* a merge of same-class indexes has returned; one identifier came from one
\* index only, another from both
C8_Witness ==
    /\ ret.op = "merge"
    /\ ret.err = "none"
    /\ parsers[ret.self].cat_to_label = parsers[ret.other].cat_to_label
    /\ \E id \in Range(parsers[ret.self].img_ids) :
          Count(parsers[ret.self].img_ids, id) = 1
    /\ \E id \in Range(parsers[ret.other].img_ids) :
          Count(parsers[ret.self].img_ids, id) = 2

(***************************************************************************)
(* C9.  a.merge(b) leaves b as it was: its img_ids, img_infos, anns,       *)
(* img_id_to_idx and img_ids_invalid, in a first merge and in later ones.  *)
(***************************************************************************)
C9_MergeSourceUntouched ==
    [][\A a \in Parsers : \A b \in Parsers :
          MergeCalled(a, b) =>
              /\ parsers'[b].img_ids = parsers[b].img_ids
              /\ parsers'[b].img_infos = parsers[b].img_infos
              /\ parsers'[b].anns = parsers[b].anns
              /\ parsers'[b].img_id_to_idx = parsers[b].img_id_to_idx
              /\ parsers'[b].img_ids_invalid = parsers[b].img_ids_invalid]_vars

\* a second merge from a non-empty source has returned
C9_Witness ==
    /\ ret.op = "merge"
    /\ ret.err = "none"
    /\ merges = 2
    /\ Len(parsers[ret.other].img_ids) > 0
    /\ Len(parsers[ret.other].img_ids_invalid) > 0

(***************************************************************************)
(* C10.  If an object of an image of the split file that passes the size   *)
(* test names a class the category table lacks, construction fails with a  *)
(* lookup error and yields no index, also when earlier images loaded;      *)
(* every label stored by a construction is in 1..number of categories.     *)
(***************************************************************************)
C10_UnknownClassIsFatal ==
    /\ ret.op = "init" =>
          LET cfg == ret.cfg
              names == Range(IF cfg.classes = <<>> THEN DEFAULT_CLASSES ELSE cfg.classes)
              bad == \E k \in DOMAIN cfg.split :
                        LET root == files[cfg.split[k]]
                        IN  /\ PassesMinSize(root, cfg.min_img_size)
                            /\ \E o \in DOMAIN root.objects : root.objects[o].name \notin names
          IN  bad => (ret.err = "KeyError" /\ ~Built(ret.self))
    /\ \A p \in Parsers : Built(p) =>
          \A k \in DOMAIN parsers[p].anns : \A j \in DOMAIN parsers[p].anns[k] :
              parsers[p].anns[k][j].label \in 1..NumCats(p)

\* a construction has failed on an unknown class after an image that loads
C10_Witness ==
    /\ ret.op = "init"
    /\ ret.err = "KeyError"
    /\ ~Built(ret.self)
    /\ Len(ret.cfg.split) > 1
    /\ LET first == files[ret.cfg.split[1]]
       IN  /\ PassesMinSize(first, ret.cfg.min_img_size)
           /\ first.objects # <<>>
           /\ \A o \in DOMAIN first.objects :
                 first.objects[o].name \in Range(classes_of(ret.cfg))

====
